---------------------------- MODULE Spec2Model ----------------------------
(***************************************************************************)
(* Model of the 0xNetworth workflow service (src/workflow-service).        *)
(*                                                                         *)
(*   - tools/youtube_tool.py : extract_video_id (regex search on strings), *)
(*                             fetch_transcript (provider calls, text and  *)
(*                             duration)                                   *)
(*   - agents/*.py           : stage agents (prompt builders, one provider *)
(*                             call, error normalisation), the aggregated  *)
(*                             agent's preconditions                       *)
(*   - models.py             : the bounds of confidence                    *)
(*   - main.py               : RequestIDMiddleware, exception handlers,    *)
(*                             /health and the /process orchestrator       *)
(*                                                                         *)
(* Strings are sequences of one-character strings.  Requests are served by *)
(* one asyncio event loop: a request runs without interruption from one    *)
(* await that really suspends to the next.                                 *)
(***************************************************************************)
EXTENDS Integers, Sequences, FiniteSets, TLC

VARIABLES
    \* ---- process-wide state (main.py) ----
    factory,      \* logging's record factory: the chain of request ids that the
                  \* installed closures stamp, innermost first; <<>> is the original
    emitted,      \* the log records created by the last step: [req, rid]
    \* ---- per-request state ----
    pc,           \* position of each request in middleware / handler
    req,          \* the request as received: endpoint, schema validity, url
    old_factory,  \* RequestIDMiddleware.__call__'s local old_factory
    video_id,     \* process_video's local video_id
    steps,        \* orchestrator steps entered, in order
    agentCalls,   \* provider calls issued per stage agent
    observed,     \* what each step got from its collaborator and what it raised
    held,         \* process_video's locals transcript, market_analysis, recommendation
    resp,         \* the HTTP response, once produced
    \* ---- harness of one call of a tool or an agent: position, input, outcome ----
    r_pc, r_in, r_out

pipeVars == <<factory, emitted, pc, req, old_factory, video_id, steps,
              agentCalls, observed, held, resp>>
resolverVars == <<r_pc, r_in, r_out>>
vars == <<pipeVars, resolverVars>>

None == "None"

-----------------------------------------------------------------------------
(*                      Strings and character classes                      *)

\* Length of a video id: the {11} of both patterns and the len(url) == 11 test.
IdLen == 11

\* How far the length of a generated token may differ from IdLen.
MaxExtra == 1

Lower == {"a","b","c","d","e","f","g","h","i","j","k","l","m",
          "n","o","p","q","r","s","t","u","v","w","x","y","z"}
Upper == {"A","B","C","D","E","F","G","H","I","J","K","L","M",
          "N","O","P","Q","R","S","T","U","V","W","X","Y","Z"}
Digit == {"0","1","2","3","4","5","6","7","8","9"}

\* Characters outside ASCII for which str.isalnum() is true (one letter, one digit).
NonAsciiAlnum == {"<e-acute>", "<arabic-3>"}

\* The regex class [a-zA-Z0-9_-].
IsIdChar(c) == c \in Lower \cup Upper \cup Digit \cup {"_", "-"}

\* str.isalnum() on one character: Unicode letters and digits.
IsAlnumChar(c) == c \in Lower \cup Upper \cup Digit \cup NonAsciiAlnum

\* str.isalnum(): every character alphanumeric and at least one character.
isalnum(s) == Len(s) > 0 /\ \A k \in 1..Len(s) : IsAlnumChar(s[k])

\* str.replace(c, ''): s without its occurrences of the character c.
RECURSIVE remove(_, _)
remove(s, c) ==
    IF s = <<>> THEN <<>>
    ELSE IF Head(s) = c THEN remove(Tail(s), c)
    ELSE <<Head(s)>> \o remove(Tail(s), c)

\* The literal lit occurs in s at position i.
MatchAt(s, i, lit) ==
    /\ i >= 1
    /\ i + Len(lit) - 1 <= Len(s)
    /\ SubSeq(s, i, i + Len(lit) - 1) = lit

\* ([a-zA-Z0-9_-]{11}) matches in s at position i.
IdRunAt(s, i) ==
    /\ i >= 1
    /\ i + IdLen - 1 <= Len(s)
    /\ \A k \in i..(i + IdLen - 1) : IsIdChar(s[k])

SetMin(S) == CHOOSE x \in S : \A y \in S : x <= y
SetMax(S) == CHOOSE x \in S : \A y \in S : x >= y

LitWatchV == <<"y","o","u","t","u","b","e",".","c","o","m","/",
               "w","a","t","c","h","?","v","=">>
LitShort  == <<"y","o","u","t","u",".","b","e","/">>
LitEmbed  == <<"y","o","u","t","u","b","e",".","c","o","m","/",
               "e","m","b","e","d","/">>
LitWatchQ == <<"y","o","u","t","u","b","e",".","c","o","m","/",
               "w","a","t","c","h","?">>
LitV      == <<"v","=">>

-----------------------------------------------------------------------------
(*                 tools/youtube_tool.py : extract_video_id                *)

\* re.search of patterns[0]: the leftmost position where one of the three
\* alternatives, tried in order, is followed by 11 id characters; group(1),
\* or <<>> when there is no match.
Alternatives == <<LitWatchV, LitShort, LitEmbed>>

Pattern1At(s, i) ==
    {a \in 1..Len(Alternatives) :
        MatchAt(s, i, Alternatives[a]) /\ IdRunAt(s, i + Len(Alternatives[a]))}

Pattern1Search(s) ==
    LET starts == {i \in 1..Len(s) : Pattern1At(s, i) # {}}
    IN  IF starts = {} THEN <<>>
        ELSE LET i == SetMin(starts)
                 a == SetMin(Pattern1At(s, i))
                 g == i + Len(Alternatives[a])
             IN  SubSeq(s, g, g + IdLen - 1)

\* re.search of patterns[1]: youtube\.com\/watch\?.*v=(…{11}).  '.' matches any
\* character but a newline and '.*' is greedy: for the leftmost start, the last
\* 'v=' followed by 11 id characters, on the same line, decides group(1).
Pattern2Ends(s, i) ==
    {j \in (i + Len(LitWatchQ))..Len(s) :
        /\ MatchAt(s, j, LitV)
        /\ IdRunAt(s, j + Len(LitV))
        /\ \A k \in (i + Len(LitWatchQ))..(j - 1) : s[k] # "\n"}

Pattern2Search(s) ==
    LET starts == {i \in 1..Len(s) : MatchAt(s, i, LitWatchQ) /\ Pattern2Ends(s, i) # {}}
    IN  IF starts = {} THEN <<>>
        ELSE LET i == SetMin(starts)
                 j == SetMax(Pattern2Ends(s, i))
             IN  SubSeq(s, j + Len(LitV), j + Len(LitV) + IdLen - 1)

Returned(v) == [ok |-> TRUE, value |-> v]
Raised(kind) == [ok |-> FALSE, error |-> kind]

\* The bare-id test of line 22.
IsBareId(url) == Len(url) = IdLen /\ isalnum(remove(remove(url, "-"), "_"))

extract_video_id(url) ==
    IF Pattern1Search(url) # <<>> THEN Returned(Pattern1Search(url))
    ELSE IF Pattern2Search(url) # <<>> THEN Returned(Pattern2Search(url))
    ELSE IF IsBareId(url) THEN Returned(url)
    ELSE Raised("ValueError")

-----------------------------------------------------------------------------
(*                    Inputs of the resolver harness                       *)

Https == <<"h","t","t","p","s",":","/","/">>
Www == <<"w","w","w",".">>
SufRv == <<"&","r","v","=">>
SufT == <<"&","t","=","1">>
RickRoll == <<"d","Q","w","4","w","9","W","g","X","c","Q">>
OtherId == <<"B","B","B","B","B","B","B","B","B","B","B">>
ExampleUrl == Https \o <<"e","x","a","m","p","l","e",".","c","o","m","/">>

\* URL shapes: what precedes the token.
Prefix(shape) ==
    CASE shape = "bare"    -> <<>>
      [] shape = "watch"   -> Https \o Www \o LitWatchV
      [] shape = "short"   -> Https \o LitShort
      [] shape = "embed"   -> Https \o Www \o LitEmbed
      [] shape = "after"   -> Https \o Www \o LitWatchQ \o <<"t","=","1","&">> \o LitV
      [] shape = "newline" -> Https \o Www \o LitWatchQ \o <<"t","=","1","\n","&">> \o LitV

Shapes == {"bare", "watch", "short", "embed", "after", "newline"}

\* What follows the token: nothing, a later parameter, a later parameter whose
\* name ends in v and whose value is another id.
Suffix(tail) ==
    CASE tail = "none"  -> <<>>
      [] tail = "param" -> SufT
      [] tail = "rv"    -> SufRv \o OtherId

Tails == {"none", "param", "rv"}

\* Tokens: one or two runs of characters, of length IdLen give or take MaxExtra.
TokChars == {"a", "Z", "7", "-", "_", "<e-acute>", "!"}

TwoRun(c1, c2, i, n) == [k \in 1..n |-> IF k <= i THEN c1 ELSE c2]

Tokens ==
    {TwoRun(c1, c2, i, n) :
        c1 \in TokChars, c2 \in TokChars,
        i \in 0..(IdLen + MaxExtra), n \in (IdLen - MaxExtra)..(IdLen + MaxExtra)}
    \cup {RickRoll}

ResolverInputs ==
    {[shape |-> sh, token |-> t, tail |-> tl, url |-> Prefix(sh) \o t \o Suffix(tl)] :
        sh \in Shapes, t \in Tokens, tl \in Tails}

\* A token as the data model defines a VideoReference: [A-Za-z0-9_-]{11}.
IsValidId(t) == Len(t) = IdLen /\ \A k \in 1..Len(t) : IsIdChar(t[k])

InitResolver ==
    /\ r_pc = "ready"
    /\ r_in \in ResolverInputs
    /\ r_out = None

\* One call of extract_video_id on the drawn input.
Resolve ==
    /\ r_pc = "ready"
    /\ r_out' = extract_video_id(r_in.url)
    /\ r_pc' = "done"
    /\ UNCHANGED <<r_in, pipeVars>>

-----------------------------------------------------------------------------
(*            main.py : requests, the event loop, the middleware           *)

\* Number of requests the service receives.
NumRequests == 2

Requests == 1..NumRequests

\* The orchestrator's failure kinds of the transcript provider.
TranscriptKinds == {"TranscriptsDisabled", "NoTranscriptFound", "VideoUnavailable"}

\* The requests a client can send: GET /health, a POST /process whose body fails
\* schema validation, and a POST /process with a URL.
RequestInputs ==
    {[endpoint |-> "/health"], [endpoint |-> "/process", valid |-> FALSE]}
    \cup {[endpoint |-> "/process", valid |-> TRUE, url |-> u] :
            u \in {Https \o LitShort \o RickRoll, ExampleUrl}}

\* Positions at which a request is running on the event loop: no other request
\* runs until it reaches an await that suspends.
SyncPcs == {"ResolveID", "CheckAvailability", "FetchTranscript", "Analyze",
            "Recommend", "Done"}

Busy == \E r \in Requests : pc[r] \in SyncPcs

InFlight(r) == pc[r] \notin {"idle", "finished"}

\* str(uuid.uuid4())[:8]: a string of its own for every request.
request_id(r) == ToString(r)

\* RequestIDFormatter.format: a record without request_id is shown as 'system'.
\* The installed closure calls the factory it wraps and then overwrites
\* request_id, so the outermost closure decides.
RequestIDFormat(f) == IF f = <<>> THEN "system" ELSE f[Len(f)]

\* The records one or more logger calls of request r create now.
LogRecord(r) == {[req |-> r, rid |-> RequestIDFormat(factory)]}

NotRun == [ran |-> FALSE]
NoSteps == [api_key |-> None, resolve |-> "notrun", check |-> "notrun",
            fetch |-> "notrun", analysis |-> NotRun, recommendation |-> NotRun]

NoLocals == [transcript |-> None, market_analysis |-> None, recommendation |-> None]

Init ==
    /\ factory = <<>>
    /\ emitted = {}
    /\ pc = [r \in Requests |-> "idle"]
    /\ req = [r \in Requests |-> None]
    /\ old_factory = [r \in Requests |-> None]
    /\ video_id = [r \in Requests |-> None]
    /\ steps = [r \in Requests |-> <<>>]
    /\ agentCalls = [r \in Requests |-> [analysis |-> 0, recommendation |-> 0]]
    /\ observed = [r \in Requests |-> NoSteps]
    /\ held = [r \in Requests |-> NoLocals]
    /\ resp = [r \in Requests |-> None]
    /\ r_pc = "off"
    /\ r_in = None
    /\ r_out = None

\* RequestIDMiddleware.__call__ up to its await: a fresh request id, the current
\* factory saved in the local old_factory, a closure over both installed
\* process-wide.
InstallFactory(r) == Append(factory, request_id(r))

Enter(r) ==
    /\ pc[r] = "idle"
    /\ ~Busy
    /\ \A q \in Requests : q < r => pc[q] # "idle"
    /\ old_factory' = [old_factory EXCEPT ![r] = factory]
    /\ factory' = InstallFactory(r)
    /\ pc' = [pc EXCEPT ![r] = "dispatch"]
    /\ emitted' = {}
    /\ UNCHANGED <<req, video_id, steps, agentCalls, observed, held, resp,
                   resolverVars>>

\* A JSONResponse built by a handler of main.py.
JSONResponse(status, content) == [status |-> status, header |-> None, body |-> content]

\* raise HTTPException(status_code, detail): no handler of main.py is registered
\* for it, so the framework's own handler answers with the detail alone.
HTTPException(r, status, detail) == JSONResponse(status, [detail |-> detail])

\* health_check; api_key is whether os.getenv('OPENAI_API_KEY') gives this call a
\* non-empty value, client whether AsyncOpenAI() can be constructed.
health_check_ignoring_key(r, api_key, client) ==
    JSONResponse(200, [status |-> "healthy", service |-> "workflow-service",
                       request_id |-> request_id(r), openai |-> "configured"])
health_check(r, api_key, client) ==
    IF ~api_key
    THEN JSONResponse(503, [status |-> "unhealthy", service |-> "workflow-service",
                            request_id |-> request_id(r), error |-> "OPENAI_API_KEY not set"])
    ELSE IF client = "ok"
    THEN JSONResponse(200, [status |-> "healthy", service |-> "workflow-service",
                            request_id |-> request_id(r), openai |-> "configured"])
    ELSE JSONResponse(200, [status |-> "degraded", service |-> "workflow-service",
                            request_id |-> request_id(r), openai |-> "error"])

\* validation_exception_handler
validation_exception_handler(r) ==
    JSONResponse(422, [detail |-> "Validation error", errors |-> "errors",
                       request_id |-> request_id(r)])

\* call_next(request): the request is read and routed and its body validated;
\* the route's handler starts.
Dispatch(r) ==
    /\ pc[r] = "dispatch"
    /\ ~Busy
    /\ \E i \in RequestInputs :
         /\ req' = [req EXCEPT ![r] = i]
         /\ \/ /\ i.endpoint = "/health"
               /\ \E api_key \in BOOLEAN, client \in {"ok", "raise"} :
                     /\ resp' = [resp EXCEPT ![r] = health_check(r, api_key, client)]
                     /\ observed' = [observed EXCEPT ![r].api_key = api_key]
               /\ pc' = [pc EXCEPT ![r] = "responding"]
               /\ emitted' = {}
            \/ /\ i.endpoint = "/process"
               /\ ~i.valid
               /\ resp' = [resp EXCEPT ![r] = validation_exception_handler(r)]
               /\ pc' = [pc EXCEPT ![r] = "responding"]
               /\ emitted' = LogRecord(r)
               /\ UNCHANGED observed
            \/ /\ i.endpoint = "/process"
               /\ i.valid
               /\ pc' = [pc EXCEPT ![r] = "ResolveID"]
               /\ emitted' = LogRecord(r)
               /\ UNCHANGED <<resp, observed>>
    /\ UNCHANGED <<factory, old_factory, video_id, steps, agentCalls, held,
                   resolverVars>>

\* RequestIDMiddleware.__call__ after its await: the header is set from the
\* local request_id and the finally clause puts the saved factory back; the
\* call's locals are gone.
SetHeader(r, response) == [response EXCEPT !.header = request_id(r)]

Exit(r) ==
    /\ pc[r] = "responding"
    /\ ~Busy
    /\ resp' = [resp EXCEPT ![r] = SetHeader(r, resp[r])]
    /\ factory' = old_factory[r]
    /\ old_factory' = [old_factory EXCEPT ![r] = None]
    /\ pc' = [pc EXCEPT ![r] = "finished"]
    /\ emitted' = {}
    /\ UNCHANGED <<req, video_id, steps, agentCalls, observed, held, resolverVars>>

-----------------------------------------------------------------------------
(*         The transcript provider and tools/youtube_tool.py : fetch       *)

\* An exception with its message (str(e)).
Exc(kind, msg) == [ok |-> FALSE, error |-> kind, msg |-> msg]

\* The message the provider's library gives an exception of one of its kinds.
ProviderMessage(kind) == <<"provider message", kind>>

Hello == <<"h","e","l","l","o">>
World == <<"w","o","r","l","d">>

\* Transcript segments, times in milliseconds.
HelloWorld == <<[text |-> Hello, start |-> 0, duration |-> 2000],
                [text |-> World, start |-> 2000, duration |-> 3500]>>

TranscriptDatas == {<<>>, HelloWorld}

\* What the provider does on one use: list() succeeds or raises, find_transcript
\* finds or not, find_generated_transcript finds or not, fetch() returns segments
\* or raises.
ProviderBehaviours ==
    {[list |-> l, find |-> "ok", generated |-> "ok", fetch |-> "ok", data |-> HelloWorld] :
        l \in {"TranscriptsDisabled", "VideoUnavailable", "Other"}}
    \cup {[list |-> "ok", find |-> "ok", generated |-> "ok", fetch |-> "ok", data |-> d] :
            d \in TranscriptDatas}
    \cup {[list |-> "ok", find |-> "ok", generated |-> "ok", fetch |-> "Other",
           data |-> HelloWorld]}
    \cup {[list |-> "ok", find |-> "NoTranscriptFound", generated |-> g, fetch |-> "ok",
           data |-> HelloWorld] : g \in {"ok", "NoTranscriptFound"}}

\* yt_api.list(video_id), then find_transcript(['en']), and on NoTranscriptFound
\* find_generated_transcript(['en']).
FindTranscript_anyfailure(p) ==
    IF p.list # "ok" THEN Exc(p.list, ProviderMessage(p.list))
    ELSE IF p.find = "ok" THEN Returned("transcript")
    ELSE IF p.generated = "ok" THEN Returned("generated transcript")
    ELSE Exc(p.generated, ProviderMessage(p.generated))
FindTranscript(p) ==
    IF p.list # "ok" THEN Exc(p.list, ProviderMessage(p.list))
    ELSE IF p.find = "ok" THEN Returned("transcript")
    ELSE IF p.find # "NoTranscriptFound" THEN Exc(p.find, ProviderMessage(p.find))
    ELSE IF p.generated = "ok" THEN Returned("generated transcript")
    ELSE Exc(p.generated, ProviderMessage(p.generated))

\* The provider calls FindTranscript issues, in order.
FindCalls(p) ==
    IF p.list # "ok" THEN <<"list">>
    ELSE IF p.find # "NoTranscriptFound" THEN <<"list", "find_transcript">>
    ELSE <<"list", "find_transcript", "find_generated_transcript">>

\* ' '.join(texts)
RECURSIVE Join(_)
Join(texts) ==
    IF texts = <<>> THEN <<>>
    ELSE IF Len(texts) = 1 THEN texts[1]
    ELSE texts[1] \o <<" ">> \o Join(Tail(texts))

\* int(x) of a non-negative time in milliseconds: whole seconds.
IntSeconds(ms) == ms \div 1000

\* An Optional[int]: a number, or None.
Some(n) == <<n>>
NoValue == <<>>

\* The except clauses of lines 88-93: the three kinds are raised anew with the
\* function's own message, anything else passes through.
Reraise(vid, e) ==
    CASE e.error = "TranscriptsDisabled" ->
            Exc("TranscriptsDisabled", <<"Transcripts are disabled for video", vid>>)
      [] e.error = "NoTranscriptFound" ->
            Exc("NoTranscriptFound", <<"No transcript found for video", vid>>)
      [] e.error = "VideoUnavailable" ->
            Exc("VideoUnavailable", <<"Video is unavailable", vid>>)
      [] OTHER -> e

\* Lines 77-84 on the fetched segments.
Combine_sum(data) ==
    LET full_text == Join([k \in 1..Len(data) |-> data[k].text])
        total[k \in 0..Len(data)] == IF k = 0 THEN 0 ELSE total[k - 1] + data[k].duration
    IN  [text |-> full_text,
         duration |-> IF data # <<>> THEN Some(IntSeconds(total[Len(data)])) ELSE NoValue]
Combine(data) ==
    LET full_text == Join([k \in 1..Len(data) |-> data[k].text])
        duration ==
            IF data # <<>>
            THEN Some(IntSeconds(data[Len(data)].start + data[Len(data)].duration))
            ELSE NoValue
    IN  [text |-> full_text, duration |-> duration]

fetch_transcript(vid, p) ==
    LET found == FindTranscript(p)
    IN  IF ~found.ok THEN Reraise(vid, found)
        ELSE IF p.fetch # "ok" THEN Reraise(vid, Exc(p.fetch, ProviderMessage(p.fetch)))
        ELSE Returned(Combine(p.data))

\* The provider calls fetch_transcript issues, in order.
FetchCalls(p) ==
    IF FindTranscript(p).ok THEN Append(FindCalls(p), "fetch") ELSE FindCalls(p)

\* ---- one call of fetch_transcript, on every provider behaviour ----

\* Longest list of segments the provider returns in the harness.
MaxSegments == 2

\* Segments: texts, one of them empty; start and length in milliseconds, whole
\* and fractional seconds.
Segments ==
    {[text |-> Hello, start |-> 0, duration |-> 2000],
     [text |-> World, start |-> 2000, duration |-> 3000],
     [text |-> World, start |-> 2000, duration |-> 3500],
     [text |-> <<>>, start |-> 5500, duration |-> 1250]}

SegmentLists == UNION {[1..n -> Segments] : n \in 0..MaxSegments}

CallOutcomes == {"ok", "Other"} \cup TranscriptKinds

FetchInputs ==
    [vid : {RickRoll},
     p : [list : CallOutcomes, find : CallOutcomes, generated : CallOutcomes,
          fetch : CallOutcomes, data : SegmentLists]]

Fetch ==
    /\ r_pc = "fetch"
    /\ r_out' = [result |-> fetch_transcript(r_in.vid, r_in.p),
                 calls |-> FetchCalls(r_in.p)]
    /\ r_pc' = "fetched"
    /\ UNCHANGED <<r_in, pipeVars>>

\* get_youtube_transcript and extract_transcript: resolve again, fetch, attach the
\* placeholder title, build the Transcript.
extract_transcript(url, p) ==
    LET id == extract_video_id(url)
    IN  IF ~id.ok THEN Exc(id.error, <<"Invalid YouTube URL or video ID", url>>)
        ELSE LET got == fetch_transcript(id.value, p)
             IN  IF ~got.ok THEN got
                 ELSE Returned([video_id |-> id.value,
                                video_title |-> <<"Video", id.value>>,
                                text |-> got.value.text,
                                duration |-> got.value.duration])

-----------------------------------------------------------------------------
(*                          agents/*.py : stage agents                     *)

\* What agent.run(prompt) can do: return a structured output (result.output is
\* Some(object)), return nothing (result.output is empty),
\* raise the agent framework's own error, raise the provider's APIError, raise
\* anything else.
AgentOutcomes ==
    {[type |-> "output", value |-> Some("structured output")],
     [type |-> "output", value |-> NoValue],
     [type |-> "raise", kind |-> "AgentFrameworkError"],  \* an instance of the class the agent catches first
     [type |-> "raise", kind |-> "APIError"],
     [type |-> "raise", kind |-> "Other"]}

\* An exception raised by a stage agent: kind, message, __cause__.
AgentExc(kind, msg, cause) == [ok |-> FALSE, error |-> kind, msg |-> msg, cause |-> cause]

\* The try block shared by the stage agents; kind is the exception class the
\* agent's module imports.
run_stage_leaky(kind, o) ==
    IF o.type = "output" THEN Returned(IF o.value = NoValue THEN None ELSE o.value[1])
    ELSE AgentExc(o.kind, ProviderMessage(o.kind), None)
run_stage(kind, o) ==
    IF o.type = "output"
    THEN IF o.value = NoValue
         THEN AgentExc(kind, "Agent returned empty output", None)
         ELSE Returned(o.value[1])
    ELSE CASE o.kind = "AgentFrameworkError" ->
                AgentExc(kind, ProviderMessage(o.kind), None)
           [] o.kind = "APIError" ->
                AgentExc(kind, <<"OpenAI API error", ProviderMessage(o.kind)>>, o.kind)
           [] OTHER ->
                AgentExc(kind, <<"Unexpected error", ProviderMessage(o.kind)>>, o.kind)

analyze_market_leaky(o) == run_stage_leaky("AgentRunError", o)
analyze_market(o) == run_stage("AgentRunError", o)

generate_recommendation(o) == run_stage("AgentError", o)

-----------------------------------------------------------------------------
(*                   agents/*.py : the prompts of the agents               *)

\* A prompt is the sequence of the pieces appended to context_prompt; a piece is
\* its literal text (label) and the rendered value put into it (characters).
Piece(label, value) == [label |-> label, value |-> value]

DigitSeq == <<"0","1","2","3","4","5","6","7","8","9">>

\* str(n) of a natural number.
RECURSIVE Digits(_)
Digits(n) == IF n < 10 THEN <<DigitSeq[n + 1]>>
             ELSE Digits(n \div 10) \o <<DigitSeq[(n % 10) + 1]>>

\* The ',' option of the format specification: groups of three digits.
RECURSIVE Grouped(_)
Grouped(n) ==
    IF n < 1000 THEN Digits(n)
    ELSE LET low == n % 1000
             pad == IF low < 10 THEN <<"0","0">> ELSE IF low < 100 THEN <<"0">> ELSE <<>>
         IN  Grouped(n \div 1000) \o <<",">> \o pad \o Digits(low)

\* Two decimals of an amount held in hundredths.
Decimals(h) == <<".", DigitSeq[((h % 100) \div 10) + 1], DigitSeq[(h % 10) + 1]>>

\* f'{x:,.2f}' and f'{x:.2f}' of a non-negative amount in hundredths.
FormatMoney(h) == Grouped(h \div 100) \o Decimals(h)
FormatFixed2(h) == Digits(h \div 100) \o Decimals(h)

\* str(x) of a non-negative float held in tenths.
FormatFloat(t) == Digits(t \div 10) \o <<".", DigitSeq[(t % 10) + 1]>>

LowerSeq == <<"a","b","c","d","e","f","g","h","i","j","k","l","m",
              "n","o","p","q","r","s","t","u","v","w","x","y","z">>
UpperSeq == <<"A","B","C","D","E","F","G","H","I","J","K","L","M",
              "N","O","P","Q","R","S","T","U","V","W","X","Y","Z">>

\* str.upper()
upper(str) ==
    [k \in 1..Len(str) |->
        IF \E i \in 1..26 : LowerSeq[i] = str[k]
        THEN UpperSeq[CHOOSE i \in 1..26 : LowerSeq[i] = str[k]]
        ELSE str[k]]

\* ", ".join(items)
RECURSIVE CommaJoin(_)
CommaJoin(items) ==
    IF items = <<>> THEN <<>>
    ELSE IF Len(items) = 1 THEN items[1]
    ELSE items[1] \o <<",", " ">> \o CommaJoin(Tail(items))

NoneText == <<"N","o","n","e">>

\* ", ".join(items) if items else "None"
CommaJoinOrNone(items) == IF items # <<>> THEN CommaJoin(items) ELSE NoneText

\* The portfolio block of the three builders; title is its first line.  The
\* argument is an Optional[PortfolioContext]; a PortfolioContext object is
\* truthy, whatever it holds.  total_value is an Optional[float], in hundredths.
HoldingLine(holding) ==
    Piece("  - {symbol}: {quantity} (${value:,.2f})",
          holding.symbol \o <<":", " ">> \o FormatFloat(holding.quantity)
              \o <<" ", "(", "$">> \o FormatMoney(holding.value) \o <<")">>)

PortfolioBlock(title, portfolio_context) ==
    IF portfolio_context # NoValue /\ portfolio_context[1].holdings # <<>>
    THEN LET context == portfolio_context[1]
         IN  <<Piece(title, <<>>),
               Piece("Total Value: ${total_value or 0:,.2f}",
                     FormatMoney(IF context.total_value \in {NoValue, Some(0)} THEN 0
                                 ELSE context.total_value[1])),
               Piece("Holdings:", <<>>)>>
             \o [k \in 1..Len(context.holdings) |-> HoldingLine(context.holdings[k])]
             \o <<Piece("\n", <<>>)>>
    ELSE <<>>

\* analyze_market, lines 48-63.
AnalysisSuffix == Piece("Provide a structured analysis including: 1) 2) 3) 4)", <<>>)

analysis_prompt(transcript_text, portfolio_context) ==
    <<Piece("Analyze the following video transcript", <<>>),
      Piece("TRANSCRIPT:", transcript_text)>>
    \o PortfolioBlock("PORTFOLIO CONTEXT:", portfolio_context)
    \o <<AnalysisSuffix>>

\* generate_recommendation, lines 52-71.
RecommendationSuffix == Piece("Provide specific recommendations including: 1) 2) 3) 4)", <<>>)

AnalysisLines(market_analysis) ==
    <<Piece("Conditions: ", market_analysis.conditions),
      Piece("Trends: ", CommaJoin(market_analysis.trends)),
      Piece("Risk Factors: ", CommaJoin(market_analysis.risk_factors)),
      Piece("Summary: ", market_analysis.summary)>>

recommendation_prompt(market_analysis, portfolio_context) ==
    <<Piece("Based on the following market analysis", <<>>),
      Piece("MARKET ANALYSIS:", <<>>)>>
    \o AnalysisLines(market_analysis)
    \o PortfolioBlock("CURRENT PORTFOLIO:", portfolio_context)
    \o <<RecommendationSuffix>>

\* generate_aggregated_recommendation, lines 66-102.
AggregatedSuffix == Piece("Based on these multiple analyses, provide: 1) 2) 3) 4) 5) 6)", <<>>)

AggregatedAnalysis(i, analysis) ==
    <<Piece("Video {i}:", Digits(i)),
      Piece("  Conditions: ", analysis.conditions),
      Piece("  Trends: ", CommaJoinOrNone(analysis.trends)),
      Piece("  Risk Factors: ", CommaJoinOrNone(analysis.risk_factors)),
      Piece("  Summary: ", analysis.summary)>>

SuggestedActionLine(action) ==
    Piece("    - {type.upper()} {symbol}: {rationale}",
          upper(action.type) \o <<" ">> \o action.symbol \o <<":", " ">> \o action.rationale)

\* rec.summary is an Optional[str]: None and '' are both falsy.
AggregatedRec(i, rec) ==
    <<Piece("Video {i}:", Digits(i)),
      Piece("  Action: ", rec.action),
      Piece("  Confidence: ", FormatFixed2(rec.confidence))>>
    \o (IF rec.suggested_actions # <<>>
        THEN <<Piece("  Suggested Actions:", <<>>)>>
             \o [k \in 1..Len(rec.suggested_actions) |->
                    SuggestedActionLine(rec.suggested_actions[k])]
        ELSE <<>>)
    \o (IF rec.summary # NoValue /\ rec.summary[1] # <<>>
        THEN <<Piece("  Summary: ", rec.summary[1])>>
        ELSE <<>>)

\* The two for loops with enumerate(items, 1), from item i on.
RECURSIVE AnalysisBlocks(_, _)
AnalysisBlocks(market_analyses, i) ==
    IF i > Len(market_analyses) THEN <<>>
    ELSE AggregatedAnalysis(i, market_analyses[i]) \o AnalysisBlocks(market_analyses, i + 1)

RECURSIVE RecBlocks(_, _)
RecBlocks(recommendations, i) ==
    IF i > Len(recommendations) THEN <<>>
    ELSE AggregatedRec(i, recommendations[i]) \o RecBlocks(recommendations, i + 1)

aggregated_prompt(market_analyses, recommendations, portfolio_context) ==
    <<Piece("Based on analysis of {len(market_analyses)} recent videos",
            Digits(Len(market_analyses))),
      Piece("RECENT MARKET ANALYSES:", <<>>)>>
    \o AnalysisBlocks(market_analyses, 1)
    \o <<Piece("RECENT RECOMMENDATIONS:", <<>>)>>
    \o RecBlocks(recommendations, 1)
    \o PortfolioBlock("CURRENT PORTFOLIO:", portfolio_context)
    \o <<AggregatedSuffix>>

-----------------------------------------------------------------------------
(*          agents/*.py and models.py : one call of an agent function      *)

\* models.py: the output types whose confidence is declared with
\* Field(ge=0.0, le=1.0); confidences are held in hundredths.
Constrained(output_type) == output_type \in {"Recommendation", "AggregatedRecommendation"}

Validates(output_type, payload) ==
    Constrained(output_type) => (payload.confidence >= 0 /\ payload.confidence <= 100)

\* What the model behind an agent answers to one run: a candidate payload,
\* nothing, or a failure of the call.
Confidences == {-1, 0, 50, 100, 101}

RawOutcomes ==
    {[type |-> "payload", confidence |-> c] : c \in Confidences}
    \cup {[type |-> "empty"],
          [type |-> "raise", kind |-> "APIError"],
          [type |-> "raise", kind |-> "Other"]}

\* agent.run(prompt) of an Agent built with output_type: the candidate is
\* validated against the output type; a candidate that fails validation is not
\* returned, the run raises the framework's error.
AgentRun_clamping(output_type, raw) ==
    CASE raw.type = "payload" ->
            [type |-> "output",
             value |-> Some([type |-> output_type,
                             confidence |-> IF raw.confidence < 0 THEN 0
                                            ELSE IF raw.confidence > 100 THEN 100
                                            ELSE raw.confidence])]
      [] raw.type = "empty" -> [type |-> "output", value |-> NoValue]
      [] OTHER -> raw
AgentRun(output_type, raw) ==
    CASE raw.type = "payload" ->
            IF Validates(output_type, raw)
            THEN [type |-> "output",
                  value |-> Some([type |-> output_type, confidence |-> raw.confidence])]
            ELSE [type |-> "raise", kind |-> "AgentFrameworkError"]
      [] raw.type = "empty" -> [type |-> "output", value |-> NoValue]
      [] OTHER -> raw

\* What one call of an agent function leaves behind: the prompt it built, the
\* number of runs of its agent, what it returned or raised.
Called(prompt, calls, result) == [prompt |-> prompt, calls |-> calls, result |-> result]

\* generate_aggregated_recommendation
generate_aggregated_recommendation_nolength(market_analyses, recommendations, portfolio_context, raw) ==
    IF market_analyses = <<>> \/ recommendations = <<>>
    THEN Called(<<>>, 0, Exc("ValueError", "Both lists must be non-empty"))
    ELSE Called(aggregated_prompt(market_analyses, recommendations, portfolio_context), 1,
                run_stage("AgentRunError", AgentRun("AggregatedRecommendation", raw)))
generate_aggregated_recommendation(market_analyses, recommendations, portfolio_context, raw) ==
    IF market_analyses = <<>> \/ recommendations = <<>>
    THEN Called(<<>>, 0, Exc("ValueError", "Both lists must be non-empty"))
    ELSE IF Len(market_analyses) # Len(recommendations)
    THEN Called(<<>>, 0, Exc("ValueError", "lists must have the same length"))
    ELSE Called(aggregated_prompt(market_analyses, recommendations, portfolio_context), 1,
                run_stage("AgentRunError", AgentRun("AggregatedRecommendation", raw)))

\* ---- one call of an agent function, on every input of the harness ----

\* Longest list of trends, of risk factors, of holdings, and of videos.
MaxItems == 2

Lists(S, n) == UNION {[1..k -> S] : k \in 0..n}

Btc == <<"B","T","C">>
Eth == <<"E","T","H">>
Holdings == {[symbol |-> Btc, quantity |-> 15, value |-> 9750000],
             [symbol |-> Eth, quantity |-> 20, value |-> 640050]}

\* None, or a PortfolioContext: holdings, total_value in hundredths or None.
PortfolioContexts ==
    {NoValue} \cup {Some([holdings |-> hs, total_value |-> t]) :
                       hs \in Lists(Holdings, MaxItems),
                       t \in {NoValue, Some(0), Some(10390050)}}

Topics == {<<"e","t","f","s">>, <<"r","a","t","e","s">>}
Bullish == <<"b","u","l","l","i","s","h">>
Text == <<"t","e","x","t">>

MarketAnalyses ==
    [conditions : {Bullish}, trends : Lists(Topics, MaxItems),
     risk_factors : Lists(Topics, MaxItems), summary : {Text}]

\* The analyses of the videos of an aggregation: the same list for both fields.
VideoAnalyses ==
    {[conditions |-> Bullish, trends |-> ts, risk_factors |-> ts, summary |-> Text] :
        ts \in {<<>>, <<Text>>}}

Recommendations ==
    {[action |-> <<"h","o","l","d">>, confidence |-> 75, suggested_actions |-> <<>>,
      summary |-> NoValue],
     [action |-> <<"a","d","d">>, confidence |-> 100,
      suggested_actions |-> <<[type |-> <<"a","d","d">>, symbol |-> Eth, rationale |-> Text]>>,
      summary |-> Some(Text)]}

AnalysisInputs ==
    [agent : {"analysis"}, transcript_text : {<<>>, Hello},
     portfolio_context : PortfolioContexts, raw : RawOutcomes]

RecommendationInputs ==
    [agent : {"recommendation"}, market_analysis : MarketAnalyses,
     portfolio_context : PortfolioContexts, raw : RawOutcomes]

AggregatedInputs ==
    [agent : {"aggregated"}, market_analyses : Lists(VideoAnalyses, MaxItems),
     recommendations : Lists(Recommendations, MaxItems),
     portfolio_context : PortfolioContexts, raw : RawOutcomes]

CallAnalysis ==
    /\ r_pc = "call"
    /\ r_in.agent = "analysis"
    /\ r_out' = Called(analysis_prompt(r_in.transcript_text, r_in.portfolio_context), 1,
                       run_stage("AgentRunError", AgentRun("MarketAnalysis", r_in.raw)))
    /\ r_pc' = "called"
    /\ UNCHANGED <<r_in, pipeVars>>

CallRecommendation ==
    /\ r_pc = "call"
    /\ r_in.agent = "recommendation"
    /\ r_out' = Called(recommendation_prompt(r_in.market_analysis, r_in.portfolio_context), 1,
                       run_stage("AgentError", AgentRun("Recommendation", r_in.raw)))
    /\ r_pc' = "called"
    /\ UNCHANGED <<r_in, pipeVars>>

CallAggregated ==
    /\ r_pc = "call"
    /\ r_in.agent = "aggregated"
    /\ r_out' = generate_aggregated_recommendation(r_in.market_analyses, r_in.recommendations,
                                                   r_in.portfolio_context, r_in.raw)
    /\ r_pc' = "called"
    /\ UNCHANGED <<r_in, pipeVars>>

-----------------------------------------------------------------------------
(*                    main.py : process_video, step by step                *)

\* process_video ends, by raise or by return: the response is decided and the
\* handler's locals are gone.
Return_fallthrough(r, response) ==
    /\ resp' = [resp EXCEPT ![r] = response]
    /\ UNCHANGED <<pc, video_id, held>>
Return(r, response) ==
    /\ resp' = [resp EXCEPT ![r] = response]
    /\ pc' = [pc EXCEPT ![r] = "responding"]
    /\ video_id' = [video_id EXCEPT ![r] = None]
    /\ held' = [held EXCEPT ![r] = NoLocals]

\* The catch-all of lines 360-366.
UnexpectedFailure(r, e) ==
    HTTPException(r, 500, [text |-> "Failed to process video", error |-> e.msg])

\* Lines 256-265.
ResolveFailure_500(r, e) ==
    HTTPException(r, 500, [text |-> "Invalid YouTube URL", error |-> e.error])
ResolveFailure(r, e) ==
    HTTPException(r, 400, [text |-> "Invalid YouTube URL", error |-> e.error])

ResolveID(r) ==
    /\ pc[r] = "ResolveID"
    /\ steps' = [steps EXCEPT ![r] = Append(@, "ResolveID")]
    /\ emitted' = LogRecord(r)
    /\ LET id == extract_video_id(req[r].url)
       IN  IF id.ok
           THEN /\ video_id' = [video_id EXCEPT ![r] = id.value]
                /\ observed' = [observed EXCEPT ![r].resolve = "ok"]
                /\ pc' = [pc EXCEPT ![r] = "CheckAvailability"]
                /\ UNCHANGED <<resp, held>>
           ELSE /\ observed' = [observed EXCEPT ![r].resolve = id.error]
                /\ Return(r, ResolveFailure(r, id))
    /\ UNCHANGED <<factory, req, old_factory, agentCalls, resolverVars>>

\* Lines 267-286: the pre-flight probe.
CheckFailure_url(r, e) ==
    HTTPException(r, 400, [text |-> "Transcript not available for video",
                           video_id |-> req[r].url, error |-> e.msg])
CheckFailure(r, e) ==
    HTTPException(r, 400, [text |-> "Transcript not available for video",
                           video_id |-> video_id[r], error |-> e.msg])

CheckAvailability(r) ==
    /\ pc[r] = "CheckAvailability"
    /\ steps' = [steps EXCEPT ![r] = Append(@, "CheckAvailability")]
    /\ emitted' = LogRecord(r)
    /\ \E p \in ProviderBehaviours :
         LET found == FindTranscript(p)
         IN  IF found.ok
             THEN /\ observed' = [observed EXCEPT ![r].check = "ok"]
                  /\ pc' = [pc EXCEPT ![r] = "FetchTranscript"]
                  /\ UNCHANGED <<resp, video_id, held>>
             ELSE /\ observed' = [observed EXCEPT ![r].check = found.error]
                  /\ IF found.error \in TranscriptKinds
                     THEN Return(r, CheckFailure(r, found))
                     ELSE Return(r, UnexpectedFailure(r, found))
    /\ UNCHANGED <<factory, req, old_factory, agentCalls, resolverVars>>

\* Lines 288-305: stage 1.
FetchFailure(r, e) ==
    IF e.error \in TranscriptKinds
    THEN HTTPException(r, 400, [text |-> "Failed to extract transcript", error |-> e.msg])
    ELSE HTTPException(r, 500, [text |-> "Unexpected error during transcript extraction",
                                error |-> e.msg])

FetchTranscript(r) ==
    /\ pc[r] = "FetchTranscript"
    /\ steps' = [steps EXCEPT ![r] = Append(@, "FetchTranscript")]
    /\ emitted' = LogRecord(r)
    /\ \E p \in ProviderBehaviours :
         LET got == extract_transcript(req[r].url, p)
         IN  IF got.ok
             THEN /\ observed' = [observed EXCEPT ![r].fetch = "ok"]
                  /\ held' = [held EXCEPT ![r].transcript = got.value]
                  /\ pc' = [pc EXCEPT ![r] = "Analyze"]
                  /\ UNCHANGED <<resp, video_id>>
             ELSE /\ observed' = [observed EXCEPT ![r].fetch = got.error]
                  /\ Return(r, FetchFailure(r, got))
    /\ UNCHANGED <<factory, req, old_factory, agentCalls, resolverVars>>

\* Lines 307-313: stage 2 is entered, the prompt goes to the analysis agent and
\* the handler awaits the provider.
Analyze(r) ==
    /\ pc[r] = "Analyze"
    /\ steps' = [steps EXCEPT ![r] = Append(@, "Analyze")]
    /\ emitted' = LogRecord(r)
    /\ agentCalls' = [agentCalls EXCEPT ![r].analysis = @ + 1]
    /\ pc' = [pc EXCEPT ![r] = "AnalyzeWait"]
    /\ UNCHANGED <<factory, req, old_factory, video_id, observed, held, resp,
                   resolverVars>>

\* Lines 314-326 and 336-347: AgentError and Exception both answer 500.
AgentFailure(r, stage, e) ==
    HTTPException(r, 500, [text |-> <<"error during", stage>>, error |-> e.msg])

\* analyze_market returns or raises; lines 314-326.
AnalyzeReturn(r) ==
    /\ pc[r] = "AnalyzeWait"
    /\ ~Busy
    /\ emitted' = LogRecord(r)
    /\ \E o \in AgentOutcomes :
         LET res == analyze_market(o)
         IN  /\ observed' = [observed EXCEPT ![r].analysis =
                                        [ran |-> TRUE, prov |-> o, res |-> res]]
             /\ IF res.ok
                THEN /\ held' = [held EXCEPT ![r].market_analysis = res.value]
                     /\ pc' = [pc EXCEPT ![r] = "Recommend"]
                     /\ UNCHANGED <<resp, video_id>>
                ELSE Return(r, AgentFailure(r, "market analysis", res))
    /\ UNCHANGED <<factory, req, old_factory, steps, agentCalls, resolverVars>>

\* Lines 328-334: stage 3 is entered and the handler awaits the provider.
Recommend(r) ==
    /\ pc[r] = "Recommend"
    /\ steps' = [steps EXCEPT ![r] = Append(@, "Recommend")]
    /\ emitted' = LogRecord(r)
    /\ agentCalls' = [agentCalls EXCEPT ![r].recommendation = @ + 1]
    /\ pc' = [pc EXCEPT ![r] = "RecommendWait"]
    /\ UNCHANGED <<factory, req, old_factory, video_id, observed, held, resp,
                   resolverVars>>

\* generate_recommendation returns or raises; lines 335-347.
RecommendReturn(r) ==
    /\ pc[r] = "RecommendWait"
    /\ ~Busy
    /\ emitted' = LogRecord(r)
    /\ \E o \in AgentOutcomes :
         LET res == generate_recommendation(o)
         IN  /\ observed' = [observed EXCEPT ![r].recommendation =
                                        [ran |-> TRUE, prov |-> o, res |-> res]]
             /\ IF res.ok
                THEN /\ held' = [held EXCEPT ![r].recommendation = res.value]
                     /\ pc' = [pc EXCEPT ![r] = "Done"]
                     /\ UNCHANGED <<resp, video_id>>
                ELSE Return(r, AgentFailure(r, "recommendation generation", res))
    /\ UNCHANGED <<factory, req, old_factory, steps, agentCalls, resolverVars>>

\* Lines 349-355.
WorkflowResponse(r) ==
    JSONResponse(200, [transcript |-> held[r].transcript,
                       market_analysis |-> held[r].market_analysis,
                       recommendation |-> held[r].recommendation])

Done(r) ==
    /\ pc[r] = "Done"
    /\ steps' = [steps EXCEPT ![r] = Append(@, "Done")]
    /\ emitted' = LogRecord(r)
    /\ Return(r, WorkflowResponse(r))
    /\ UNCHANGED <<factory, req, old_factory, agentCalls, observed, resolverVars>>

-----------------------------------------------------------------------------
(*                              Specifications                             *)

Next ==
    \E r \in Requests :
        \/ Enter(r)
        \/ Dispatch(r)
        \/ ResolveID(r)
        \/ CheckAvailability(r)
        \/ FetchTranscript(r)
        \/ Analyze(r)
        \/ AnalyzeReturn(r)
        \/ Recommend(r)
        \/ RecommendReturn(r)
        \/ Done(r)
        \/ Exit(r)

Spec == Init /\ [][Next]_vars

\* The resolver alone, on every input of the harness.
InitResolverSpec ==
    /\ InitResolver
    /\ factory = <<>>
    /\ emitted = {}
    /\ pc = [r \in Requests |-> "idle"]
    /\ req = [r \in Requests |-> None]
    /\ old_factory = [r \in Requests |-> None]
    /\ video_id = [r \in Requests |-> None]
    /\ steps = [r \in Requests |-> <<>>]
    /\ agentCalls = [r \in Requests |-> [analysis |-> 0, recommendation |-> 0]]
    /\ observed = [r \in Requests |-> NoSteps]
    /\ held = [r \in Requests |-> NoLocals]
    /\ resp = [r \in Requests |-> None]

NextResolver == Resolve

SpecResolver == InitResolverSpec /\ [][NextResolver]_vars

\* The pipeline before any request, for the specifications of a single call.
NoRequests ==
    /\ factory = <<>>
    /\ emitted = {}
    /\ pc = [r \in Requests |-> "idle"]
    /\ req = [r \in Requests |-> None]
    /\ old_factory = [r \in Requests |-> None]
    /\ video_id = [r \in Requests |-> None]
    /\ steps = [r \in Requests |-> <<>>]
    /\ agentCalls = [r \in Requests |-> [analysis |-> 0, recommendation |-> 0]]
    /\ observed = [r \in Requests |-> NoSteps]
    /\ held = [r \in Requests |-> NoLocals]
    /\ resp = [r \in Requests |-> None]

\* fetch_transcript alone, on every provider behaviour of the harness.
InitFetch ==
    /\ r_pc = "fetch"
    /\ r_in \in FetchInputs
    /\ r_out = None
    /\ NoRequests

NextFetch == Fetch

SpecFetch == InitFetch /\ [][NextFetch]_vars

\* The agent functions alone, on every input of the harness.
InitAgents ==
    /\ r_pc = "call"
    /\ \/ r_in \in AnalysisInputs
       \/ r_in \in RecommendationInputs
       \/ r_in \in AggregatedInputs
    /\ r_out = None
    /\ NoRequests

NextAgents == CallAnalysis \/ CallRecommendation \/ CallAggregated

SpecAgents == InitAgents /\ [][NextAgents]_vars

-----------------------------------------------------------------------------
(*                         Properties of the pipeline                      *)

PipelineOrder == <<"ResolveID", "CheckAvailability", "FetchTranscript", "Analyze",
                   "Recommend", "Done">>

IsPrefix(s, t) == Len(s) <= Len(t) /\ SubSeq(t, 1, Len(s)) = s

HasResponse(r) == pc[r] \in {"responding", "finished"}

IsProcess(r) == /\ pc[r] \notin {"idle", "dispatch"}
                /\ req[r].endpoint = "/process"
                /\ req[r].valid

\* The request is in the orchestrator's Error state.
InError(r) == IsProcess(r) /\ HasResponse(r) /\ resp[r].status # 200

\* The named step of request r has run and succeeded.
Succeeded(r, step) ==
    CASE step = "ResolveID"         -> observed[r].resolve = "ok"
      [] step = "CheckAvailability" -> observed[r].check = "ok"
      [] step = "FetchTranscript"   -> observed[r].fetch = "ok"
      [] step = "Analyze"           -> observed[r].analysis.ran /\ observed[r].analysis.res.ok
      [] step = "Recommend"         -> /\ observed[r].recommendation.ran
                                       /\ observed[r].recommendation.res.ok
      [] OTHER                      -> FALSE

StepsInOrder(r) ==
    /\ IsPrefix(steps[r], PipelineOrder)
    /\ \A k \in 1..(Len(steps[r]) - 1) : Succeeded(r, steps[r][k])
    /\ agentCalls[r].analysis <= 1
    /\ agentCalls[r].recommendation <= 1
    /\ agentCalls[r].analysis = Cardinality({k \in 1..Len(steps[r]) : steps[r][k] = "Analyze"})
    /\ agentCalls[r].recommendation =
           Cardinality({k \in 1..Len(steps[r]) : steps[r][k] = "Recommend"})

\* C1: the steps of a request run in the order ResolveID, CheckAvailability,
\* FetchTranscript, Analyze, Recommend, Done, each at most once and only after
\* all earlier ones succeeded; each agent is called at most once; once a step
\* has failed, no further step is entered and no agent is called.
C1_StepsInOrderErrorAbsorbing ==
    /\ [](\A r \in Requests : StepsInOrder(r))
    /\ [][\A r \in Requests :
            InError(r) => /\ steps'[r] = steps[r]
                          /\ agentCalls'[r] = agentCalls[r]
                          /\ resp'[r].status = resp[r].status]_vars

\* One request completed all six steps while another one ended in Error after
\* its analysis step.
C1_Witness ==
    \E r, q \in Requests :
        /\ pc[r] = "finished" /\ steps[r] = PipelineOrder /\ resp[r].status = 200
        /\ pc[q] = "finished" /\ InError(q) /\ Len(steps[q]) = 4

\* The video ID resolved from the request.
ResolvedId(r) == extract_video_id(req[r].url).value

\* C2: when the provider reports "disabled" to the availability check, the
\* response is 400, its detail carries the resolved video ID and the message of
\* the TranscriptsDisabled error, and no agent is invoked.
C2_DisabledShortCircuits ==
    \A r \in Requests :
        (IsProcess(r) /\ observed[r].check = "TranscriptsDisabled") =>
            /\ HasResponse(r)
            /\ resp[r].status = 400
            /\ resp[r].body.detail.video_id = ResolvedId(r)
            /\ resp[r].body.detail.error = ProviderMessage("TranscriptsDisabled")
            /\ agentCalls[r].analysis = 0
            /\ agentCalls[r].recommendation = 0
            /\ steps[r] = <<"ResolveID", "CheckAvailability">>

C2_Witness ==
    \E r \in Requests :
        /\ pc[r] = "finished"
        /\ IsProcess(r)
        /\ observed[r].check = "TranscriptsDisabled"

EmptyOutput == [type |-> "output", value |-> NoValue]

\* C3: when the analysis agent returns an empty result, the response is 500,
\* the recommendation agent is never invoked, and the body holds nothing but
\* the error detail: no transcript, analysis or recommendation.
C3_EmptyAnalysisNoPartialProgress ==
    \A r \in Requests :
        (observed[r].analysis.ran /\ observed[r].analysis.prov = EmptyOutput) =>
            /\ HasResponse(r)
            /\ resp[r].status = 500
            /\ agentCalls[r].recommendation = 0
            /\ ~observed[r].recommendation.ran
            /\ DOMAIN resp[r].body = {"detail"}

C3_Witness ==
    \E r \in Requests :
        /\ pc[r] = "finished"
        /\ observed[r].analysis.ran
        /\ observed[r].analysis.prov = EmptyOutput

\* The status the outcome of the steps calls for; 0 while the request is running.
ExpectedStatus(r) ==
    LET o == observed[r]
    IN  IF \/ o.resolve = "ValueError"
           \/ o.check \in TranscriptKinds
           \/ o.fetch \in TranscriptKinds
        THEN 400
        ELSE IF \/ o.resolve \notin {"ok", "notrun"}
                \/ o.check \notin {"ok", "notrun"}
                \/ o.fetch \notin {"ok", "notrun"}
                \/ (o.analysis.ran /\ ~o.analysis.res.ok)
                \/ (o.recommendation.ran /\ ~o.recommendation.res.ok)
        THEN 500
        ELSE IF \A k \in 1..5 : Succeeded(r, PipelineOrder[k])
        THEN 200
        ELSE 0

\* C4: a schema-valid POST /process is answered 400 exactly when the reference
\* is invalid or the check or the fetch failed with one of the three transcript
\* kinds, 500 exactly when an agent failed or any other exception was raised,
\* and 200 exactly when all five steps succeeded.
C4_StatusMapping ==
    \A r \in Requests :
        (IsProcess(r) /\ HasResponse(r)) =>
            /\ resp[r].status \in {200, 400, 500}
            /\ resp[r].status = ExpectedStatus(r)

\* Responses of all three statuses have been produced, the 500 one by a
\* non-transcript exception of the fetch.
C4_Witness ==
    \E r, q \in Requests :
        /\ pc[r] = "finished" /\ IsProcess(r) /\ resp[r].status = 400
        /\ observed[r].fetch = "NoTranscriptFound"
        /\ pc[q] = "finished" /\ IsProcess(q) /\ resp[q].status = 500
        /\ observed[q].fetch = "Other"

\* C5: every response carries the X-Request-ID header, and every error body
\* (400, 422, 500, 503) has a request_id field equal to the header.
C5_ErrorBodiesEchoRequestId ==
    \A r \in Requests :
        pc[r] = "finished" =>
            /\ resp[r].header = request_id(r)
            /\ resp[r].status >= 400 =>
                  /\ "request_id" \in DOMAIN resp[r].body
                  /\ resp[r].body.request_id = resp[r].header

\* C6: every log record created while a request is handled carries that
\* request's identifier, and the identifier is the one in its X-Request-ID header.
C6_LogRecordsCarryOwnId ==
    /\ \A rec \in emitted : rec.rid = request_id(rec.req)
    /\ \A r \in Requests : pc[r] = "finished" => resp[r].header = request_id(r)

\* C7: no step of one request writes a resource that another request in flight
\* reads or writes.  The record factory is read by every logger call and written
\* by every entry to and exit from the middleware.
C7_NoSharedMutableResource ==
    [][\A r \in Requests :
          (pc'[r] # pc[r] /\ factory' # factory) =>
              \A q \in Requests \ {r} : ~InFlight(q)]_vars

\* The exception class a stage agent's module imports as its error.
AgentErrorClass(stage) ==
    IF stage = "recommendation" THEN "AgentError" ELSE "AgentRunError"

\* What one run of a stage agent gave its caller, against what the provider did.
StageNormalised(stage, run, calls) ==
    run.ran =>
        /\ calls = 1
        /\ run.res.ok => (run.prov.type = "output" /\ run.res.value # None)
        /\ run.res.ok => run.res.value = run.prov.value[1]
        /\ ~run.res.ok => run.res.error = AgentErrorClass(stage)
        /\ run.prov = EmptyOutput => (~run.res.ok /\ run.res.cause = None)
        /\ (run.prov.type = "raise" /\ run.prov.kind \in {"APIError", "Other"}) =>
              (~run.res.ok /\ run.res.cause = run.prov.kind)
        /\ run.prov.type = "raise" => ~run.res.ok

-----------------------------------------------------------------------------
(*                         Properties of the resolver                      *)

NoPatternMatches(url) == Pattern1Search(url) = <<>> /\ Pattern2Search(url) = <<>>

\* C9: extract_video_id fails exactly when no pattern matches and the input is
\* not an 11-character token over [A-Za-z0-9_-]; such a bare token, also one of
\* '-' and '_' only, is returned unchanged.
C9_FailsExactlyOnNonIds ==
    r_pc = "done" =>
        /\ ~r_out.ok <=> (NoPatternMatches(r_in.url) /\ ~IsValidId(r_in.url))
        /\ IsValidId(r_in.url) => r_out = Returned(r_in.url)

\* C10: for an 11-character token T over [A-Za-z0-9_-], the watch URL, the short
\* URL, the embed URL and a watch URL with v=T after other parameters all
\* resolve to T.
C10_UrlShapesResolveToToken ==
    (r_pc = "done" /\ IsValidId(r_in.token)
                   /\ r_in.shape \in {"watch", "short", "embed", "after"}) =>
        r_out = Returned(r_in.token)

\* C11: whatever extract_video_id returns matches [A-Za-z0-9_-]{11}.
C11_ReturnedIdsAreValid ==
    (r_pc = "done" /\ r_out.ok) => IsValidId(r_out.value)

-----------------------------------------------------------------------------
(*                      Properties of fetch_transcript                     *)

FetchSucceeded == r_pc = "fetched" /\ r_out.result.ok

\* text is the texts joined by the separator sep: each text at its place, in
\* order, one separator between neighbours, nothing else.
IsJoinedBy(text, texts, sep) ==
    LET off[k \in 1..Len(texts)] ==
            IF k = 1 THEN 0 ELSE off[k - 1] + Len(texts[k - 1]) + Len(sep)
        n == Len(texts)
    IN  /\ n > 0
        /\ Len(text) = off[n] + Len(texts[n])
        /\ \A k \in 1..n : SubSeq(text, off[k] + 1, off[k] + Len(texts[k])) = texts[k]
        /\ \A k \in 2..n : SubSeq(text, off[k] - Len(sep) + 1, off[k]) = sep

IsJoined(text, texts) == IsJoinedBy(text, texts, <<" ">>)

\* C12 as stated: for a non-empty list of segments the text is the segment
\* texts joined by single spaces, in order, and the duration is the start of the
\* last segment plus its length (times in milliseconds).
C12_JoinedTextLastSegmentEnd ==
    (FetchSucceeded /\ r_in.p.data # <<>>) =>
        LET data == r_in.p.data
            last == data[Len(data)]
            got == r_out.result.value
        IN  /\ IsJoined(got.text, [k \in 1..Len(data) |-> data[k].text])
            /\ Len(got.duration) = 1
            /\ got.duration[1] * 1000 = last.start + last.duration

\* C12 amended: for a non-empty list of segments the text is the segment texts
\* joined by single spaces, in order, and the duration is the start of the last
\* segment plus its length, cut to whole seconds.
C12_JoinedTextLastSegmentEndTruncated ==
    (FetchSucceeded /\ r_in.p.data # <<>>) =>
        LET data == r_in.p.data
            last == data[Len(data)]
            got == r_out.result.value
            end == last.start + last.duration
        IN  /\ IsJoined(got.text, [k \in 1..Len(data) |-> data[k].text])
            /\ Len(got.duration) = 1
            /\ got.duration[1] * 1000 <= end
            /\ end < (got.duration[1] + 1) * 1000

\* "hello" (0 s, 2 s) and "world" (2 s, 3.5 s) were fetched: "hello world", 5.
C12_Witness ==
    /\ FetchSucceeded
    /\ r_in.p.data = <<[text |-> Hello, start |-> 0, duration |-> 2000],
                       [text |-> World, start |-> 2000, duration |-> 3500]>>
    /\ r_out.result.value = [text |-> Hello \o <<" ">> \o World, duration |-> Some(5)]

\* C13: a Transcript placed in a 200 response has a non-empty text and a
\* duration that is absent or a non-negative integer.
C13_TranscriptTextNonEmpty ==
    \A r \in Requests :
        (IsProcess(r) /\ HasResponse(r) /\ resp[r].status = 200) =>
            LET t == resp[r].body.transcript
            IN  /\ t.text # <<>>
                /\ t.duration = NoValue \/ t.duration[1] >= 0

\* What the provider answered to a call.
Outcome(p, call) ==
    CASE call = "list" -> p.list
      [] call = "find_transcript" -> p.find
      [] call = "find_generated_transcript" -> p.generated
      [] call = "fetch" -> p.fetch

-----------------------------------------------------------------------------
(*                     Properties of the agent functions                   *)

AgentCalled(agent) == r_pc = "called" /\ r_in.agent = agent

\* C15: with lists of different lengths, or with an empty list,
\* generate_aggregated_recommendation fails with ValueError and the aggregation
\* model is not called; it is called, once, only when both lists are non-empty
\* and equally long.
C15_PreconditionsBeforeModelCall ==
    AgentCalled("aggregated") =>
        LET na == Len(r_in.market_analyses)
            nr == Len(r_in.recommendations)
            bad == na = 0 \/ nr = 0 \/ na # nr
        IN  /\ bad => (~r_out.result.ok /\ r_out.result.error = "ValueError")
            /\ r_out.calls = IF bad THEN 0 ELSE 1

\* Two analyses against one recommendation: ValueError, no call.
C15_Witness ==
    /\ AgentCalled("aggregated")
    /\ Len(r_in.market_analyses) = 2
    /\ Len(r_in.recommendations) = 1
    /\ r_out.calls = 0
    /\ ~r_out.result.ok

\* The values of the pieces of a prompt that carry the given label, in order.
Rendered(prompt, label) ==
    LET WithLabel(piece) == piece.label = label
        sel == SelectSeq(prompt, WithLabel)
    IN  [k \in 1..Len(sel) |-> sel[k].value]

\* A list as the spec has it rendered: comma-joined, "None" when empty.
RendersList(value, items) ==
    IF items = <<>> THEN value = <<"N","o","n","e">>
    ELSE IsJoinedBy(value, items, <<",", " ">>)

\* C16: the recommendation builder and the aggregation builder render the
\* trends and the risk factors of every analysis comma-joined, an empty list as
\* the text "None".
C16_ListsCommaJoinedOrNone ==
    /\ AgentCalled("recommendation") =>
          /\ Len(Rendered(r_out.prompt, "Trends: ")) = 1
          /\ Len(Rendered(r_out.prompt, "Risk Factors: ")) = 1
          /\ RendersList(Rendered(r_out.prompt, "Trends: ")[1], r_in.market_analysis.trends)
          /\ RendersList(Rendered(r_out.prompt, "Risk Factors: ")[1],
                         r_in.market_analysis.risk_factors)
    /\ (AgentCalled("aggregated") /\ r_out.calls = 1) =>
          LET trends == Rendered(r_out.prompt, "  Trends: ")
              risks == Rendered(r_out.prompt, "  Risk Factors: ")
          IN  /\ Len(trends) = Len(r_in.market_analyses)
              /\ Len(risks) = Len(r_in.market_analyses)
              /\ \A i \in 1..Len(r_in.market_analyses) :
                    /\ RendersList(trends[i], r_in.market_analyses[i].trends)
                    /\ RendersList(risks[i], r_in.market_analyses[i].risk_factors)

TotalValueLabel == "Total Value: ${total_value or 0:,.2f}"

\* The prompt has a portfolio section for the context: the total value, then
\* after the heading one line per holding in order, all before the last piece
\* (the instructional suffix).
HasPortfolioSection(prompt, context) ==
    \E k \in 1..Len(prompt) :
        /\ prompt[k].label = TotalValueLabel
        /\ prompt[k].value = FormatMoney(IF context.total_value = NoValue THEN 0
                                         ELSE context.total_value[1])
        /\ k + 1 + Len(context.holdings) < Len(prompt)
        /\ \A h \in 1..Len(context.holdings) :
              prompt[k + 1 + h] = HoldingLine(context.holdings[h])

\* C17: a prompt built with a portfolio context has the portfolio section,
\* also when the holdings list is empty; a prompt built without one has none.
C17_PortfolioSectionWhenSupplied ==
    (r_pc = "called" /\ r_out.calls = 1) =>
        IF r_in.portfolio_context # NoValue
        THEN HasPortfolioSection(r_out.prompt, r_in.portfolio_context[1])
        ELSE Rendered(r_out.prompt, TotalValueLabel) = <<>>

\* C18: a Recommendation or AggregatedRecommendation returned by its agent
\* function has a confidence in [0, 1], the candidate's own; a candidate below
\* 0 or above 1 is not returned (confidences in hundredths).
C18_ConfidenceInRange ==
    (r_pc = "called" /\ r_in.agent \in {"recommendation", "aggregated"}
                    /\ r_out.calls = 1) =>
        /\ r_out.result.ok =>
              /\ r_in.raw.type = "payload"
              /\ r_out.result.value.confidence >= 0
              /\ r_out.result.value.confidence <= 100
              /\ r_out.result.value.confidence = r_in.raw.confidence
        /\ (r_in.raw.type = "payload"
              /\ (r_in.raw.confidence < 0 \/ r_in.raw.confidence > 100)) =>
              ~r_out.result.ok

\* The aggregation model answered with a confidence of 1.01: nothing returned.
C18_Witness ==
    /\ AgentCalled("aggregated")
    /\ r_out.calls = 1
    /\ r_in.raw = [type |-> "payload", confidence |-> 101]
    /\ ~r_out.result.ok

-----------------------------------------------------------------------------
(*                 Properties of /health and of the middleware             *)

IsHealth(r) == pc[r] \notin {"idle", "dispatch"} /\ req[r].endpoint = "/health"

\* C19: GET /health answers 503 exactly when no credential is configured and
\* otherwise 200 with status, service and request_id in the body; it enters no
\* step of the pipeline, so it calls neither the transcript provider nor an agent.
C19_HealthStatus ==
    \A r \in Requests :
        IsHealth(r) =>
            /\ HasResponse(r)
            /\ resp[r].status = 503 <=> ~observed[r].api_key
            /\ observed[r].api_key =>
                  /\ resp[r].status = 200
                  /\ {"status", "service", "request_id"} \subseteq DOMAIN resp[r].body
                  /\ resp[r].body.request_id = request_id(r)
            /\ steps[r] = <<>>
            /\ agentCalls[r] = [analysis |-> 0, recommendation |-> 0]

\* One probe was answered 503 without a credential, another 200 with one.
C19_Witness ==
    \E r, q \in Requests :
        /\ pc[r] = "finished" /\ IsHealth(r) /\ ~observed[r].api_key
        /\ resp[r].status = 503
        /\ pc[q] = "finished" /\ IsHealth(q) /\ observed[q].api_key
        /\ resp[q].status = 200

\* C20: whenever no request is in flight the record factory is the original
\* one, and a record created then is shown as 'system'.
C20_FactoryRestoredWhenIdle ==
    (\A r \in Requests : ~InFlight(r)) =>
        /\ factory = <<>>
        /\ RequestIDFormat(factory) = "system"

=============================================================================
